---- MODULE Spec2Model ----
(***************************************************************************)
(* badpubs: scan a publications RDF feed for subjects that lack the pmid   *)
(* predicate and report them (src/src/badpubs.py, src/setup.py).           *)
(*                                                                         *)
(* Text is modelled as sequences of Unicode code points, byte strings as   *)
(* sequences of byte values; predicate URIs, which the program only        *)
(* compares for equality, are strings.                                     *)
(***************************************************************************)
EXTENDS Integers, Sequences, FiniteSets, TLC

VARIABLES
  pc,          \* position in main / checkPublications / outputBadPublications
  url,         \* main's url
  formatter,   \* class of main's formatter
  graph,       \* the triples of the parsed graph, in iteration order
  statements,  \* parsePubs' index: subject -> predicate -> list of objects
  missing,     \* checkPublications' list of (subject, predicates) pairs
  idx,         \* 1-based position of outputBadPublications' loop in missing
  rendered,    \* the (subject, title, creators) of every formatter.format call
  queries,     \* the 'term' of every search request issued
  results,     \* LookupFormatter.format's results of the latest search
  output,      \* the records written to the output
  io,          \* the open / fetch / write / close calls made, in order
  error,       \* the exception raised, and the loop position it was raised at
  errlog,      \* the logging.exception records
  result,      \* main's return value
  entry,       \* how the process was started
  exitStatus   \* the process exit status

vars == <<pc, url, formatter, graph, statements, missing, idx, rendered, queries,
          results, output, io, error, errlog, result, entry, exitStatus>>

(* ------------------------------ bounds --------------------------------- *)

\* Largest number of triples in a feed.
MaxTriples == 2

(* ----------------------------- constants ------------------------------- *)

defaultURL == "http://ginger.fhcrc.org/dmcc/rdf-data/publications/rdf"

pubMedIDPredURI == "http://edrn.nci.nih.gov/rdf/schema.rdf#pmid"

titlePredURI == "http://purl.org/dc/terms/title"

creatorPredURI == "http://purl.org/dc/terms/author"

\* A predicate the program never looks at.
rdfTypePredURI == "http://www.w3.org/1999/02/22-rdf-syntax-ns#type"

\* u'«NO TITLE»'
NO_TITLE == <<171, 78, 79, 32, 84, 73, 84, 76, 69, 187>>

\* u'«NO AUTHORS»'
NO_AUTHORS == <<171, 78, 79, 32, 65, 85, 84, 72, 79, 82, 83, 187>>

\* u'«NONE»'
NONE_FOUND == <<171, 78, 79, 78, 69, 187>>

\* u'"'
QUOTE == <<34>>

\* u'; '
CREATOR_SEP == <<59, 32>>

\* u': '
PLAIN_SUBJECT_SEP == <<58, 32>>

\* u', Creators: '
PLAIN_CREATORS_LABEL == <<44, 32, 67, 114, 101, 97, 116, 111, 114, 115, 58, 32>>

\* u', Suggested PubMedID: '
PLAIN_SUGGEST_LABEL == <<44, 32, 83, 117, 103, 103, 101, 115, 116, 101, 100, 32,
                         80, 117, 98, 77, 101, 100, 73, 68, 58, 32>>

\* u'\n'
NEWLINE == <<10>>

\* Python's None, and a value that is not None.
None == [none |-> TRUE, v |-> <<>>]

Just(x) == [none |-> FALSE, v |-> x]

(* --------------------------- input universes --------------------------- *)

\* Subject URIs "A", "AB", "B" (one a proper prefix of another).
Subjects == {<<65>>, <<65, 66>>, <<66>>}

Predicates == {pubMedIDPredURI, titlePredURI, creatorPredURI, rdfTypePredURI}

\* The objects a predicate takes: titles and creators "X", "Y"; the pmid "1";
\* the type "T".
Objects(p) ==
  IF p = pubMedIDPredURI THEN {<<49>>}
  ELSE IF p = rdfTypePredURI THEN {<<84>>}
  ELSE {<<88>>, <<89>>}

Triples == UNION {[s : Subjects, p : {q}, o : Objects(q)] : q \in Predicates}

\* The triples of a graph in the order the store iterates them; a graph holds
\* each triple once.
Feeds ==
  UNION {{f \in [1..n -> Triples] : \A i, j \in 1..n : i # j => f[i] # f[j]}
           : n \in 0..MaxTriples}

\* Identifier texts "1", "21".
Ids == {<<49>>, <<50, 49>>}

\* The /eSearchResult/IdList/Id/text() nodes of a search result; a result
\* lists an identifier once.
IdLists ==
  UNION {{r \in [1..n -> Ids] : \A i, j \in 1..n : i # j => r[i] # r[j]}
           : n \in 0..Cardinality(Ids)}

Formatters == {"PlainFormatter", "PlainLookupFormatter", "CSVFormatter", "CSVLookupFormatter"}

LookupFormatters == {"PlainLookupFormatter", "CSVLookupFormatter"}

NoError == [kind |-> "none", at |-> 0]

(* ------------------------------ helpers -------------------------------- *)

\* The empty dict.
EmptyDict == [x \in {} |-> x]

\* unicode.encode('utf-8') of one code point.
EncodeChar(c) ==
  IF c < 128 THEN <<c>>
  ELSE IF c < 2048 THEN <<192 + (c \div 64), 128 + (c % 64)>>
  ELSE <<224 + (c \div 4096), 128 + ((c \div 64) % 64), 128 + (c % 64)>>

RECURSIVE encode(_)
encode(s) == IF s = <<>> THEN <<>> ELSE EncodeChar(Head(s)) \o encode(Tail(s))

\* cmp() of two unicode strings: code point by code point, a proper prefix first.
RECURSIVE Cmp(_, _)
Cmp(a, b) ==
  IF a = <<>> /\ b = <<>> THEN 0
  ELSE IF a = <<>> THEN -1
  ELSE IF b = <<>> THEN 1
  ELSE IF Head(a) < Head(b) THEN -1
  ELSE IF Head(a) > Head(b) THEN 1
  ELSE Cmp(Tail(a), Tail(b))

\* u'; '.join(values)
RECURSIVE Join(_, _)
Join(sep, values) ==
  IF values = <<>> THEN <<>>
  ELSE IF Len(values) = 1 THEN values[1]
  ELSE values[1] \o sep \o Join(sep, Tail(values))

(* ------------------------------ parsePubs ------------------------------ *)

\* IndexTriple with the value list replaced instead of extended.
IndexTripleOverwrite(st, t) ==
  LET predicates == IF t.s \in DOMAIN st THEN st[t.s] ELSE EmptyDict
  IN  (t.s :> ((t.p :> <<t.o>>) @@ predicates)) @@ st

\* One iteration of the loop over the graph.
IndexTriple(st, t) ==
  LET predicates == IF t.s \in DOMAIN st THEN st[t.s] ELSE EmptyDict
      objects == IF t.p \in DOMAIN predicates THEN predicates[t.p] ELSE <<>>
  IN  (t.s :> ((t.p :> Append(objects, t.o)) @@ predicates)) @@ st

RECURSIVE IndexFrom(_, _)
IndexFrom(st, feed) ==
  IF feed = <<>> THEN st ELSE IndexFrom(IndexTriple(st, Head(feed)), Tail(feed))

parsePubs(feed) == IndexFrom(EmptyDict, feed)

(* ------------------------- findMissingPubMedIDs ------------------------ *)

\* The orders in which a dict with these keys may be iterated.
IterationOrders(keys) ==
  {f \in [1..Cardinality(keys) -> keys] : \A i, j \in DOMAIN f : i # j => f[i] # f[j]}

\* IsMissing testing the title predicate.
IsMissingTitle(predicates) == titlePredURI \notin DOMAIN predicates

\* The test that selects a subject.
IsMissing(predicates) == pubMedIDPredURI \notin DOMAIN predicates

RECURSIVE MissingFrom(_, _)
MissingFrom(st, order) ==
  IF order = <<>> THEN <<>>
  ELSE LET subject == Head(order)
           rest == MissingFrom(st, Tail(order))
       IN  IF IsMissing(st[subject]) THEN <<(<<subject, st[subject]>>)>> \o rest ELSE rest

findMissingPubMedIDs(st, order) == MissingFrom(st, order)

(* ------------------------------- sorting ------------------------------- *)

RECURSIVE InsertSorted(_, _)
InsertSorted(x, sorted) ==
  IF sorted = <<>> THEN <<x>>
  ELSE IF Cmp(x[1], Head(sorted)[1]) < 0 THEN <<x>> \o sorted
  ELSE <<Head(sorted)>> \o InsertSorted(x, Tail(sorted))

RECURSIVE SortFrom(_, _)
SortFrom(sorted, rest) ==
  IF rest = <<>> THEN sorted ELSE SortFrom(InsertSorted(Head(rest), sorted), Tail(rest))

\* SortMissing without the sort.
SortMissingNone(m) == m

\* missing.sort(lambda a, b: cmp(a[0], b[0])); the sort is stable.
SortMissing(m) == SortFrom(<<>>, m)

(* ------------------------------ rendering ------------------------------ *)

\* RenderTitle taking the last title value.
RenderTitleLast(preds) ==
  IF titlePredURI \in DOMAIN preds
    THEN QUOTE \o preds[titlePredURI][Len(preds[titlePredURI])] \o QUOTE
    ELSE NO_TITLE

RenderTitle(preds) ==
  IF titlePredURI \in DOMAIN preds THEN QUOTE \o preds[titlePredURI][1] \o QUOTE ELSE NO_TITLE

RenderCreators(preds) ==
  IF creatorPredURI \in DOMAIN preds THEN Join(CREATOR_SEP, preds[creatorPredURI]) ELSE NO_AUTHORS

\* The 'term' parameter of the search request.
LookupTerm(title) == encode(title)

\* SuggestedID taking the last identifier.
SuggestedIDLast(r) == IF r # <<>> THEN Just(r[Len(r)]) ELSE None

SuggestedID(r) == IF r # <<>> THEN Just(r[1]) ELSE None

\* Python truth value of an optional string.
Truthy(x) == ~x.none /\ x.v # <<>>

PlainMessage(subject, title, creators) ==
  encode(subject \o PLAIN_SUBJECT_SEP \o title \o PLAIN_CREATORS_LABEL \o creators \o NEWLINE)

PlainLookupMessage(subject, title, creators, pubMedID) ==
  encode(subject \o PLAIN_SUBJECT_SEP \o title \o PLAIN_CREATORS_LABEL \o creators
         \o PLAIN_SUGGEST_LABEL \o (IF Truthy(pubMedID) THEN pubMedID.v ELSE NONE_FOUND)
         \o NEWLINE)

\* csv.writer writes None as the empty field.
CsvField(x) == IF x.none THEN <<>> ELSE x.v

CSVRow(subject, title, creators) == <<encode(subject), encode(title), encode(creators)>>

CSVLookupRow(subject, title, creators, pubMedID) ==
  <<encode(subject), encode(title), encode(creators), CsvField(pubMedID)>>

\* What formatter.format writes; a plain record is the bytes of a line, a CSV
\* record the fields of a row.
Record(fmt, subject, title, creators, pubMedID) ==
  IF fmt = "PlainFormatter" THEN [plain |-> PlainMessage(subject, title, creators), row |-> <<>>]
  ELSE IF fmt = "PlainLookupFormatter"
    THEN [plain |-> PlainLookupMessage(subject, title, creators, pubMedID), row |-> <<>>]
  ELSE IF fmt = "CSVFormatter" THEN [plain |-> <<>>, row |-> CSVRow(subject, title, creators)]
  ELSE [plain |-> <<>>, row |-> CSVLookupRow(subject, title, creators, pubMedID)]

SelectFormatter(csv, suggest) ==
  IF suggest THEN (IF csv THEN "CSVLookupFormatter" ELSE "PlainLookupFormatter")
  ELSE (IF csv THEN "CSVFormatter" ELSE "PlainFormatter")

(* ------------------------------- actions ------------------------------- *)

Init ==
  /\ pc = "start"
  /\ url = ""
  /\ formatter = ""
  /\ graph = <<>>
  /\ statements = EmptyDict
  /\ missing = <<>>
  /\ idx = 1
  /\ rendered = <<>>
  /\ queries = <<>>
  /\ results = <<>>
  /\ output = <<>>
  /\ io = <<>>
  /\ error = NoError
  /\ errlog = <<>>
  /\ result = "None"
  /\ entry = "none"
  /\ exitStatus = -1

\* main, started without a URL argument: parse_args, the default URL, then
\* open the output and choose the formatter.
ParseArgsAndOpen ==
  /\ pc = "start"
  /\ url' = defaultURL
  /\ \E csv \in BOOLEAN, suggest \in BOOLEAN : formatter' = SelectFormatter(csv, suggest)
  /\ io' = Append(io, "open")
  /\ pc' = "parse"
  /\ UNCHANGED <<graph, statements, missing, idx, rendered, queries, results, output, error,
                 errlog, result, entry, exitStatus>>

\* main: more than one positional argument; optparse's error() exits with 2.
UsageError ==
  /\ pc = "start"
  /\ error' = [kind |-> "UsageError", at |-> 0]
  /\ exitStatus' = 2
  /\ pc' = "exited"
  /\ UNCHANGED <<url, formatter, graph, statements, missing, idx, rendered, queries,
                 results, output, io, errlog, result, entry>>

\* main: open() raises outside the try block; the interpreter prints the
\* traceback and exits with 1.
OpenFails ==
  /\ pc = "start"
  /\ url' = defaultURL
  /\ io' = Append(io, "open")
  /\ error' = [kind |-> "OutputError", at |-> 0]
  /\ exitStatus' = 1
  /\ pc' = "exited"
  /\ UNCHANGED <<formatter, graph, statements, missing, idx, rendered, queries,
                 results, output, errlog, result, entry>>

\* Except closing the output in the handler.
ExceptCloses(kind) ==
  /\ error' = [kind |-> kind, at |-> idx]
  /\ errlog' = Append(errlog, [url |-> url, exc |-> kind])
  /\ result' = "False"
  /\ pc' = "returned"
  /\ io' = Append(io, "close")

\* main's except clause: log the failure with the URL and return False.
Except(kind) ==
  /\ error' = [kind |-> kind, at |-> idx]
  /\ errlog' = Append(errlog, [url |-> url, exc |-> kind])
  /\ result' = "False"
  /\ pc' = "returned"
  /\ UNCHANGED io

ParsePubs ==
  /\ pc = "parse"
  /\ \E feed \in Feeds :
       /\ graph' = feed
       /\ statements' = parsePubs(feed)
  /\ io' = Append(io, "fetch")
  /\ pc' = "find"
  /\ UNCHANGED <<url, formatter, missing, idx, rendered, queries, results, output, error,
                 errlog, result, entry, exitStatus>>

ParsePubsFails ==
  /\ pc = "parse"
  /\ \E kind \in {"FetchError", "ParseError"} :
       /\ error' = [kind |-> kind, at |-> 0]
       /\ errlog' = Append(errlog, [url |-> url, exc |-> kind])
  /\ result' = "False"
  /\ io' = Append(io, "fetch")
  /\ pc' = "returned"
  /\ UNCHANGED <<url, formatter, graph, statements, missing, idx, rendered, queries,
                 results, output, entry, exitStatus>>

FindMissing ==
  /\ pc = "find"
  /\ \E order \in IterationOrders(DOMAIN statements) :
       missing' = findMissingPubMedIDs(statements, order)
  /\ pc' = "sort"
  /\ UNCHANGED <<url, formatter, graph, statements, idx, rendered, queries, results, output, io,
                 error, errlog, result, entry, exitStatus>>

Sort ==
  /\ pc = "sort"
  /\ missing' = SortMissing(missing)
  /\ pc' = "output"
  /\ UNCHANGED <<url, formatter, graph, statements, idx, rendered, queries, results, output, io,
                 error, errlog, result, entry, exitStatus>>

\* The arguments outputBadPublications passes to formatter.format for the
\* gap at idx.
FormatArgs ==
  [subject |-> missing[idx][1],
   title |-> RenderTitle(missing[idx][2]),
   creators |-> RenderCreators(missing[idx][2])]

\* The record is written and the loop goes on.
Written(pubMedID) ==
  /\ output' = Append(output, Record(formatter, FormatArgs.subject, FormatArgs.title,
                                     FormatArgs.creators, pubMedID))
  /\ io' = Append(io, "write")
  /\ idx' = idx + 1
  /\ UNCHANGED <<pc, error, errlog, result>>

\* One iteration of outputBadPublications with PlainFormatter or CSVFormatter.
Format ==
  /\ pc = "output"
  /\ idx <= Len(missing)
  /\ formatter \notin LookupFormatters
  /\ rendered' = Append(rendered, FormatArgs)
  /\ Written(None)
  /\ UNCHANGED <<url, formatter, graph, statements, missing, queries, results, entry,
                 exitStatus>>

\* One iteration with a LookupFormatter whose search request succeeds.
FormatWithLookup ==
  /\ pc = "output"
  /\ idx <= Len(missing)
  /\ formatter \in LookupFormatters
  /\ rendered' = Append(rendered, FormatArgs)
  /\ queries' = Append(queries, LookupTerm(FormatArgs.title))
  /\ \E r \in IdLists :
       /\ results' = r
       /\ Written(SuggestedID(r))
  /\ UNCHANGED <<url, formatter, graph, statements, missing, entry, exitStatus>>

\* LookupFails with the failure caught per record: the loop goes on.
LookupFailsSkips ==
  /\ pc = "output"
  /\ idx <= Len(missing)
  /\ formatter \in LookupFormatters
  /\ rendered' = Append(rendered, FormatArgs)
  /\ queries' = Append(queries, LookupTerm(FormatArgs.title))
  /\ error' = [kind |-> "LookupError", at |-> idx]
  /\ errlog' = Append(errlog, [url |-> url, exc |-> "LookupError"])
  /\ idx' = idx + 1
  /\ UNCHANGED <<pc, url, formatter, graph, statements, missing, results, output, io,
                 result, entry, exitStatus>>

\* One iteration with a LookupFormatter whose etree.parse(url) raises.
LookupFails ==
  /\ pc = "output"
  /\ idx <= Len(missing)
  /\ formatter \in LookupFormatters
  /\ rendered' = Append(rendered, FormatArgs)
  /\ queries' = Append(queries, LookupTerm(FormatArgs.title))
  /\ Except("LookupError")
  /\ UNCHANGED <<url, formatter, graph, statements, missing, idx, results, output, entry,
                 exitStatus>>

\* One iteration whose write to the output raises.
WriteFails ==
  /\ pc = "output"
  /\ idx <= Len(missing)
  /\ rendered' = Append(rendered, FormatArgs)
  /\ IF formatter \in LookupFormatters
       THEN /\ queries' = Append(queries, LookupTerm(FormatArgs.title))
            /\ \E r \in IdLists : results' = r
       ELSE UNCHANGED <<queries, results>>
  /\ Except("OutputError")
  /\ UNCHANGED <<url, formatter, graph, statements, missing, idx, output, entry, exitStatus>>

\* checkPublications returned: output.close() and return True.
CloseAndReturn ==
  /\ pc = "output"
  /\ idx > Len(missing)
  /\ io' = Append(io, "close")
  /\ result' = "True"
  /\ pc' = "returned"
  /\ UNCHANGED <<url, formatter, graph, statements, missing, idx, rendered, queries,
                 results, output, error, errlog, entry, exitStatus>>

\* badpubs.py run as a script: sys.exit(0 if main(sys.argv) else -1).
ExitScript ==
  /\ pc = "returned"
  /\ entry' = "script"
  /\ exitStatus' = IF result = "True" THEN 0 ELSE (-1) % 256
  /\ pc' = "exited"
  /\ UNCHANGED <<url, formatter, graph, statements, missing, idx, rendered, queries,
                 results, output, io, error, errlog, result>>

\* The console script badpubs=badpubs:main: sys.exit(main()), and sys.exit of
\* a bool exits with its integer value.
ExitConsoleScript ==
  /\ pc = "returned"
  /\ entry' = "console_script"
  /\ exitStatus' = IF result = "True" THEN 1 ELSE 0
  /\ pc' = "exited"
  /\ UNCHANGED <<url, formatter, graph, statements, missing, idx, rendered, queries,
                 results, output, io, error, errlog, result>>

Next ==
  \/ ParseArgsAndOpen
  \/ UsageError
  \/ OpenFails
  \/ ParsePubs
  \/ ParsePubsFails
  \/ FindMissing
  \/ Sort
  \/ Format
  \/ FormatWithLookup
  \/ LookupFails
  \/ WriteFails
  \/ CloseAndReturn
  \/ ExitScript
  \/ ExitConsoleScript

Spec == Init /\ [][Next]_vars

(* ------------------------ vocabulary of the claims --------------------- *)

\* The subjects of the feed's triples.
GraphSubjects == {graph[i].s : i \in DOMAIN graph}

\* The feed has a triple with this subject and predicate.
HasTriple(s, p) == \E i \in DOMAIN graph : graph[i].s = s /\ graph[i].p = p

\* The objects of the feed's triples with this subject and predicate, in
\* arrival order.
ValuesOf(s, p) ==
  LET sel == SelectSeq(graph, LAMBDA t : t.s = s /\ t.p = p)
  IN  [i \in 1..Len(sel) |-> sel[i].o]

\* The subjects the feed gives no identifier.
GapSubjects == {s \in GraphSubjects : ~HasTriple(s, pubMedIDPredURI)}

\* a is before b in lexicographic order of code points.
LexLess(a, b) ==
  \E k \in 1..(Len(b)) :
    /\ k <= Len(a) + 1
    /\ \A j \in 1..(k - 1) : a[j] = b[j]
    /\ (k = Len(a) + 1 \/ a[k] < b[k])

\* The number of gaps that sort before s.
Rank(s) == Cardinality({g \in GapSubjects : LexLess(g, s)})

\* parsePubs has just returned.
IndexReturned == pc = "find"

\* findMissingPubMedIDs has just returned.
GapsReturned == pc = "sort"

\* The number of calls of this kind made so far.
Count(call) == Cardinality({i \in DOMAIN io : io[i] = call})

\* Record i of the output carries subject s in its first position.
OutputSubjectIs(i, s) ==
  IF formatter \in {"CSVFormatter", "CSVLookupFormatter"}
    THEN output[i].row[1] = s
    ELSE /\ Len(output[i].plain) >= Len(s) + 2
         /\ SubSeq(output[i].plain, 1, Len(s) + 2) = s \o <<58, 32>>

\* The values joined with "; ", built from the right.
RECURSIVE Joined(_)
Joined(values) ==
  IF Len(values) = 1 THEN values[1]
  ELSE Joined(SubSeq(values, 1, Len(values) - 1)) \o <<59, 32>> \o values[Len(values)]

\* The UTF-8 bytes of the three sentinels.
NoTitleBytes == <<194, 171, 78, 79, 32, 84, 73, 84, 76, 69, 194, 187>>

NoAuthorsBytes == <<194, 171, 78, 79, 32, 65, 85, 84, 72, 79, 82, 83, 194, 187>>

NoneFoundBytes == <<194, 171, 78, 79, 78, 69, 194, 187>>

\* The bytes of a rendered title or creators field of the model's feeds,
\* whose literals are ASCII.
FieldBytes(text) ==
  IF text = NO_TITLE THEN NoTitleBytes
  ELSE IF text = NO_AUTHORS THEN NoAuthorsBytes
  ELSE text

(* -------------------------------- claims ------------------------------- *)

\* C1: findMissingPubMedIDs returns a (subject, record) pair for a subject
\* if and only if the feed gives the subject no pmid triple, whatever other
\* predicates the subject lacks; the pair carries the subject's record and
\* no subject is returned twice.
C1_MissingIffNoPubMedID ==
  GapsReturned =>
    /\ \A s \in GraphSubjects :
         (\E i \in DOMAIN missing : missing[i][1] = s) <=> ~HasTriple(s, pubMedIDPredURI)
    /\ \A i \in DOMAIN missing :
         /\ missing[i][1] \in GraphSubjects
         /\ missing[i][2] = statements[missing[i][1]]
    /\ \A i, j \in DOMAIN missing : i # j => missing[i][1] # missing[j][1]

\* C1 witness: findMissingPubMedIDs has just returned one subject and left
\* out another that has the pmid predicate but neither title nor creators.
C1_Witness ==
  /\ pc = "sort"
  /\ Len(missing) = 1
  /\ \E s \in DOMAIN statements :
       /\ pubMedIDPredURI \in DOMAIN statements[s]
       /\ titlePredURI \notin DOMAIN statements[s]
       /\ creatorPredURI \notin DOMAIN statements[s]

\* C2: a run of checkPublications that completes without error has written
\* exactly one record per gap, and the records are in ascending
\* lexicographic order of subject: record i carries the gap subject that
\* has i-1 gap subjects before it.
C2_OneRecordPerGapSorted ==
  result = "True" =>
    /\ Len(output) = Cardinality(GapSubjects)
    /\ \A i \in DOMAIN output :
         \E s \in GapSubjects : OutputSubjectIs(i, s) /\ Rank(s) = i - 1

\* C2 witness: a completed run wrote two records although the feed's
\* triples arrived in descending order of subject.
C2_Witness ==
  /\ result = "True"
  /\ Len(output) = 2
  /\ Len(graph) = 2
  /\ LexLess(graph[2].s, graph[1].s)

\* C3: the exit status is 0 exactly for the runs in which no failure
\* occurred, under either way of starting the program.
C3_ExitStatusZeroIffSuccess ==
  pc = "exited" => (exitStatus = 0 <=> error = NoError)

\* C4: once the lookup for gap k has failed, the output holds exactly the
\* records of the first k-1 gaps in sorted order, k search requests have
\* been issued and no more, and the run does not go on.
C4_LookupFailureAborts ==
  error.kind = "LookupError" =>
    /\ pc \in {"returned", "exited"}
    /\ idx = error.at
    /\ Len(queries) = error.at
    /\ Len(output) = error.at - 1
    /\ \A i \in DOMAIN output :
         \E s \in GapSubjects : OutputSubjectIs(i, s) /\ Rank(s) = i - 1

\* C4 witness: the lookup for the second gap failed after the first gap's
\* record was written.
C4_Witness ==
  /\ error = [kind |-> "LookupError", at |-> 2]
  /\ Len(output) = 1
  /\ pc = "exited"

\* C5: a run in which an error of the taxonomy occurred has logged it with
\* the feed location and the error, and exits with a non-zero status.
C5_ErrorLoggedAndNonZeroExit ==
  (pc = "exited" /\ error.kind \in {"FetchError", "ParseError", "LookupError", "OutputError"}) =>
    /\ \E i \in DOMAIN errlog : errlog[i] = [url |-> url, exc |-> error.kind]
    /\ exitStatus # 0

\* C6: every title passed to the formatter is the no-title sentinel exactly
\* when the feed gives the subject no title, and otherwise the first title
\* value in arrival order between quotation marks; every creators field is
\* the no-authors sentinel exactly when the feed gives the subject no
\* creator, and otherwise all creator values in arrival order joined with
\* "; ".
C6_TitleAndCreatorsRendering ==
  \A i \in DOMAIN rendered :
    LET s == rendered[i].subject
    IN  /\ s = missing[i][1]
        /\ (rendered[i].title = NO_TITLE) <=> ~HasTriple(s, titlePredURI)
        /\ HasTriple(s, titlePredURI) =>
             rendered[i].title = <<34>> \o ValuesOf(s, titlePredURI)[1] \o <<34>>
        /\ (rendered[i].creators = NO_AUTHORS) <=> ~HasTriple(s, creatorPredURI)
        /\ HasTriple(s, creatorPredURI) =>
             rendered[i].creators = Joined(ValuesOf(s, creatorPredURI))

\* C6 witness: a gap with two title values and no creator has been rendered.
C6_Witness ==
  \E i \in DOMAIN rendered :
    /\ Len(ValuesOf(rendered[i].subject, titlePredURI)) = 2
    /\ rendered[i].title # NO_TITLE
    /\ rendered[i].creators = NO_AUTHORS

\* C6 second case, reached as well: a gap with two creators and no title.
C6_CaseTwoCreators ==
  \E i \in DOMAIN rendered :
    /\ Len(ValuesOf(rendered[i].subject, creatorPredURI)) = 2
    /\ rendered[i].title = NO_TITLE

\* C7: the term of every search request is the title value itself, and the
\* identifier written is the first of the result, if any.
C7_QueryIsTitleText ==
  /\ \A i \in DOMAIN queries :
       HasTriple(rendered[i].subject, titlePredURI) =>
         queries[i] = ValuesOf(rendered[i].subject, titlePredURI)[1]
  /\ (formatter = "CSVLookupFormatter" /\ output # <<>> /\ Len(output) = Len(queries)) =>
       output[Len(output)].row[4] = (IF results = <<>> THEN <<>> ELSE results[1])

\* C8: the record written after a search carries subject, title and
\* creators in that order and then, in the plain format, the none-found
\* sentinel if the result is empty and the first identifier of the result
\* otherwise; in the CSV format, an empty fourth field if the result is
\* empty and the first identifier otherwise.
C8_SuggestedIdentifierField ==
  (formatter \in LookupFormatters /\ output # <<>> /\ Len(output) = Len(queries)) =>
    LET n == Len(output)
        s == rendered[n].subject
        title == FieldBytes(rendered[n].title)
        creators == FieldBytes(rendered[n].creators)
    IN  IF formatter = "CSVLookupFormatter"
          THEN output[n].row =
                 <<s, title, creators, IF results = <<>> THEN <<>> ELSE results[1]>>
          ELSE output[n].plain =
                 s \o <<58, 32>> \o title
                   \o <<44, 32, 67, 114, 101, 97, 116, 111, 114, 115, 58, 32>> \o creators
                   \o <<44, 32, 83, 117, 103, 103, 101, 115, 116, 101, 100, 32,
                        80, 117, 98, 77, 101, 100, 73, 68, 58, 32>>
                   \o (IF results = <<>> THEN NoneFoundBytes ELSE results[1])
                   \o <<10>>

\* C8 witness: a plain record was written after a search that returned two
\* identifiers, following one written after a search that returned none.
C8_Witness ==
  /\ formatter = "PlainLookupFormatter"
  /\ Len(output) = 2
  /\ Len(queries) = 2
  /\ Len(results) = 2
  /\ SubSeq(output[1].plain, Len(output[1].plain) - 8, Len(output[1].plain) - 1) = NoneFoundBytes

\* C9: the index has exactly the subjects of the feed's triples; a
\* subject's record has exactly the predicates of its triples, and each
\* value list is the objects of the matching triples, once per triple, in
\* arrival order, never empty.
C9_IndexMatchesTriples ==
  IndexReturned =>
    /\ DOMAIN statements = GraphSubjects
    /\ \A s \in DOMAIN statements :
         /\ DOMAIN statements[s] = {p \in Predicates : HasTriple(s, p)}
         /\ \A p \in DOMAIN statements[s] :
              /\ statements[s][p] = ValuesOf(s, p)
              /\ statements[s][p] # <<>>

\* C9 witness: the index of a parsed feed holds two values under one
\* predicate of one subject.
C9_Witness ==
  /\ IndexReturned
  /\ \E s \in DOMAIN statements : \E p \in DOMAIN statements[s] : Len(statements[s][p]) = 2

C10_CaseFailureUnclosed ==
  /\ result = "False"
  /\ Count("write") = 1
  /\ Count("close") = 0

====
